---- MODULE Spec2Model ----
(***************************************************************************)
(* A model of docassemblecli3 (src/docassemblecli3/docassemblecli3.py).    *)
(*   Spec          the one-shot `install` command, package_installer and   *)
(*                 wait_for_server; the remote server is the environment:  *)
(*                 every HTTP request is answered by a nondeterministic    *)
(*                 choice among the answers the code distinguishes, or     *)
(*                 fails at network level;                                 *)
(*   SpecManifest  the descriptor scan and the step-3 lookup on their own; *)
(*   SpecWatch     the `watch` command: on_any_event and the drain loop.   *)
(***************************************************************************)
EXTENDS Integers, Sequences, FiniteSets, TLC

VARIABLES
    pc,                 \* position of the install command / package_installer
    playground,         \* --playground option: "" (package), "default" or a project
    restart,            \* --restart option: "yes", "no" or "auto"
    has_python_files,   \* package_installer locals set by the directory walk
    this_package_name,
    dependencies,
    already_installed,  \* local of the step-3 branch (line 400)
    should_restart,     \* "unset" until decided, then "True" / "False"
    server_version_da,  \* "unset", "norestart" or a version string
    data,               \* form fields of the submission
    project_list,       \* the answer to the project-list request of line 450
    tries,              \* wait_for_server locals
    r,
    info,
    success,            \* what wait_for_server returned / line 493
    slept,              \* the settle sleep of line 328 was performed
    installed_msg,      \* "Installed." was printed (lines 498, 513)
    ret,                \* what package_installer returned or raised
    exit_code,          \* process exit status of the install command
    log,                \* requests issued so far, status polls excepted
    nStatus,            \* number of status polls issued
    clean,              \* no status poll failed at network level so far
    setup_text,         \* the descriptor read at line 364 (manifest specification)
    package_list,       \* the package list answered at line 398 (manifest specification)
    LAST_MODIFIED,      \* the global of lines 24-29: time, files, restart
    restart_param,      \* watch: the --restart option (line 596)
    wake,               \* watch: the time at which the drain loop's sleep ends
    printed,            \* watch: the files listed at lines 620-621
    wpc,                \* watch: position of the drain loop
    hpc,                \* position of on_any_event
    event,              \* the path of the event on_any_event is handling
    now,                \* the clock
    occurred,           \* paths whose event has been delivered
    first_event,        \* time of the first and of the last event delivered
    last_event,
    invocations,        \* the package_installer calls of line 625
    observer,           \* watch: the observer thread of lines 599-602
    raised,             \* watch: the exception that ended the drain loop
    fs,                 \* the directory tree under the package directory
    to_ignore,          \* line 352
    pending,            \* directories os.walk has still to yield (line 357)
    visited,            \* directories os.walk has yielded
    root_directory,     \* line 353
    parsed,             \* directories whose setup.py has been read (line 363)
    zf,                 \* the files written to the archive (line 384)
    env,                \* the server list of the configuration (line 223)
    call,               \* the arguments of the last add_or_update_env call
    selected_server     \* what select_server returned (line 204)

vars == <<pc, playground, restart, has_python_files, this_package_name,
          dependencies, already_installed, should_restart, server_version_da,
          data, project_list, tries, r, info, success, slept, installed_msg, ret, exit_code,
          log, nStatus, clean, setup_text, package_list, LAST_MODIFIED,
          restart_param, wake, printed, wpc, hpc, event, now,
          occurred, first_event, last_event, invocations, observer, raised,
          fs, to_ignore, pending, visited, root_directory, parsed, zf,
          env, call, selected_server>>

\* the variables of the server list
envVars == <<env, call, selected_server>>

\* the variables of the directory walk of lines 346-384
walkVars == <<fs, to_ignore, pending, visited, root_directory, parsed, zf>>

\* what the install command's steps record nothing in
\* the variables of the watch command
watchVars == <<LAST_MODIFIED, restart_param, wake, printed, wpc, hpc,
               event, now, occurred, first_event, last_event, invocations, observer, raised>>

outsideInstaller == <<setup_text, package_list, watchVars, walkVars, envVars>>

-----------------------------------------------------------------------------
(* Bounds of the model *)

\* longest package list the server answers with
MaxPkgs == 2

(* Program constants *)

\* while tries < 300 (line 301)
MaxTries == 300
\* timeout=600 on the requests that carry one (line 307)
Timeout == 600

-----------------------------------------------------------------------------
(* Versions: packaging.version.parse and its ordering *)

\* packaging_version.parse: the release tuple of a version string
parse(v) ==
    CASE v = "0"     -> <<0>>
      [] v = "1.0"   -> <<1, 0>>
      [] v = "1.2"   -> <<1, 2>>
      [] v = "1.5.0" -> <<1, 5, 0>>
      [] v = "1.5.2" -> <<1, 5, 2>>
      [] v = "1.5.3" -> <<1, 5, 3>>
      [] v = "1.6"   -> <<1, 6>>

Seg(t, i) == IF i <= Len(t) THEN t[i] ELSE 0

RECURSIVE CmpFrom(_, _, _)
CmpFrom(a, b, i) ==
    IF i > Len(a) /\ i > Len(b) THEN 0
    ELSE IF Seg(a, i) < Seg(b, i) THEN -1
    ELSE IF Seg(a, i) > Seg(b, i) THEN 1
    ELSE CmpFrom(a, b, i + 1)

\* ordering of two parsed versions: -1, 0 or 1 (missing segments count as 0)
VersionCmp(a, b) == CmpFrom(a, b, 1)

-----------------------------------------------------------------------------
(* The restart decision, lines 387-423 *)

None == "None"

\* re.sub(r"^docassemble\.", "docassemble-", name), line 402
alt_name(name) ==
    CASE name = "docassemble.bar" -> "docassemble-bar"
      [] name = "docassemble.pkg" -> "docassemble-pkg"
      [] OTHER -> name

conditionIgnoringOperator(dependency_info, package_info) == TRUE

\* lines 405-416: does the installed version satisfy the declared constraint
condition(dependency_info, package_info) ==
    LET c == VersionCmp(parse(package_info.version), parse(dependency_info.version))
    IN  CASE dependency_info.operator = None -> TRUE
          [] dependency_info.operator = "==" -> c = 0
          [] dependency_info.operator = "<=" -> c <= 0
          [] dependency_info.operator = ">=" -> c >= 0
          [] dependency_info.operator = "<"  -> c < 0
          [] dependency_info.operator = ">"  -> c > 0

\* lines 403-418: one pass of the inner loop over the dependencies
MarkDependencies(deps, package_info) ==
    [d \in DOMAIN deps |->
        IF /\ d \in {package_info.name, alt_name(package_info.name)}
           /\ condition(deps[d], package_info)
        THEN [deps[d] EXCEPT !.installed = TRUE]
        ELSE deps[d]]

\* lines 401-420: the loop over installed_packages, from index i on
RECURSIVE LookupFrom(_, _, _, _, _)
LookupFrom(installed_packages, i, deps, already, name) ==
    IF i > Len(installed_packages) THEN [dependencies |-> deps, already_installed |-> already]
    ELSE LET package_info == installed_packages[i]
         IN  LookupFrom(installed_packages, i + 1,
                        MarkDependencies(deps, package_info),
                        already \/ (name # None /\ name \in {package_info.name, alt_name(package_info.name)}),
                        name)

RemoteLookup(installed_packages, deps, name) ==
    LookupFrom(installed_packages, 1, deps, FALSE, name)

AllInstalled(deps) == \A d \in DOMAIN deps : deps[d].installed

ShouldRestartAfterLookupNoLen(already, deps) ==
    ~(already /\ AllInstalled(deps))

\* line 421
ShouldRestartAfterLookup(already, deps) ==
    (~already /\ Cardinality(DOMAIN deps) > 0) \/ ~AllInstalled(deps)

RestartBranchCodeFirst(override, has_py, deps, name) ==
    IF override = "yes" \/ has_py THEN "yes"
    ELSE IF override = "no" THEN "no"
    ELSE IF Cardinality(DOMAIN deps) > 0 \/ name # None THEN "lookup"
    ELSE "default"

RestartBranchIgnoringCode(override, has_py, deps, name) ==
    IF override = "no" THEN "no"
    ELSE IF override = "yes" THEN "yes"
    ELSE IF Cardinality(DOMAIN deps) > 0 \/ name # None THEN "lookup"
    ELSE "default"

RestartBranchDefaultNo(override, has_py, deps, name) ==
    IF override = "no" THEN "no"
    ELSE IF override = "yes" \/ has_py THEN "yes"
    ELSE IF Cardinality(DOMAIN deps) > 0 \/ name # None THEN "lookup"
    ELSE "no"

\* the if / elif chain of lines 387, 389, 391 and 422
RestartBranch(override, has_py, deps, name) ==
    IF override = "no" THEN "no"
    ELSE IF override = "yes" \/ has_py THEN "yes"
    ELSE IF Cardinality(DOMAIN deps) > 0 \/ name # None THEN "lookup"
    ELSE "default"

-----------------------------------------------------------------------------
(* The descriptor scan, lines 362-378.  Texts are sequences of characters. *)

Whitespace == {" ", "\n", "\t"}

RECURSIVE lstrip(_)
lstrip(s) == IF s # <<>> /\ Head(s) \in Whitespace THEN lstrip(Tail(s)) ELSE s

RECURSIVE rstrip(_)
rstrip(s) ==
    IF s # <<>> /\ s[Len(s)] \in Whitespace THEN rstrip(SubSeq(s, 1, Len(s) - 1)) ELSE s

\* str.strip()
strip(s) == rstrip(lstrip(s))

RECURSIVE SplitFrom(_, _, _, _)
SplitFrom(s, sep, i, cur) ==
    IF i > Len(s) THEN <<cur>>
    ELSE IF s[i] = sep THEN <<cur>> \o SplitFrom(s, sep, i + 1, <<>>)
    ELSE SplitFrom(s, sep, i + 1, Append(cur, s[i]))

\* str.split(sep) for a one-character separator
split(s, sep) == SplitFrom(s, sep, 1, <<>>)

\* the Python string made of the characters of s
RECURSIVE text(_)
text(s) == IF s = <<>> THEN "" ELSE Head(s) \o text(Tail(s))

\* `c in s` for a one-character string c and a string s
In(c, s) == \E i \in 1..Len(s) : s[i] = c

\* the alternative (<=|>=|==|<|>) of line 374 matching at position i, if any
OperatorAt(s, i) ==
    LET two == IF i + 1 <= Len(s) THEN s[i] \o s[i + 1] ELSE ""
    IN  IF two \in {"<=", ">=", "=="} THEN two
        ELSE IF s[i] \in {"<", ">"} THEN s[i]
        ELSE None

\* re.search(r"(.*)(<=|>=|==|<|>)(.*)", s), line 374: the first group is
\* greedy, so the operator taken is the last one that matches
search_operator(s) ==
    LET hits == {i \in 1..Len(s) : OperatorAt(s, i) # None}
    IN  IF hits = {} THEN [matched |-> FALSE, name |-> s, operator |-> None, version |-> <<>>]
        ELSE LET i == CHOOSE h \in hits : \A g \in hits : g <= h
                 op == OperatorAt(s, i)
             IN  [matched |-> TRUE,
                  name |-> SubSeq(s, 1, i - 1),
                  operator |-> op,
                  version |-> SubSeq(s, i + Len(op), Len(s))]

\* the right operand of the `in` of line 372: (""", """) is a parenthesised
\* triple-quoted string literal, the two characters comma and space
quote_test == <<",", " ">>

\* the two quotation marks
QuoteMarks == <<"'", "\"">>

Dep(op, v) == [installed |-> FALSE, operator |-> op, version |-> v]

\* dependencies[key] = value
Put(deps, key, value) ==
    [k \in DOMAIN deps \cup {key} |-> IF k = key THEN value ELSE deps[k]]

\* lines 370-378: the loop over the comma-separated pieces, from piece i on,
\* an entry being accepted when its first character is in `quotes`
RECURSIVE AddEntries(_, _, _, _)
AddEntries(pieces, i, deps, quotes) ==
    IF i > Len(pieces) THEN deps
    ELSE LET package_name == strip(pieces[i])
             inner == SubSeq(package_name, 2, Len(package_name) - 1)
             mm == search_operator(inner)
         IN  IF /\ Len(package_name) >= 3
                /\ package_name[1] = package_name[Len(package_name)]
                /\ In(package_name[1], quotes)
             THEN AddEntries(pieces, i + 1,
                             IF mm.matched
                             THEN Put(deps, text(strip(mm.name)),
                                      Dep(mm.operator, text(strip(mm.version))))
                             ELSE Put(deps, text(inner), Dep(None, None)),
                             quotes)
             ELSE AddEntries(pieces, i + 1, deps, quotes)

\* lines 368-378 with a given set of accepted quote characters
ScanDependenciesWith(descriptor, quotes) ==
    IF descriptor.install_requires = <<>> THEN <<>>
    ELSE AddEntries(split(descriptor.install_requires[1], ","), 1, <<>>, quotes)

\* lines 368-378 as written
ScanDependencies(descriptor) == ScanDependenciesWith(descriptor, quote_test)

\* lines 365-367: the character class ["\"] holds the double quote only
ScanName(descriptor) ==
    IF descriptor.name_quote = "\"" THEN descriptor.name ELSE None

-----------------------------------------------------------------------------
(* Inputs *)

Playgrounds == {"", "default", "proj"}
RestartModes == {"yes", "no", "auto"}

\* a descriptor (setup.py): the quote character and the text of its name=
\* argument, and what lies between the brackets of install_requires=[...]
\* (no element when the descriptor has no such list)
Descriptor(q, name, requires) ==
    [name_quote |-> q, name |-> name, install_requires |-> requires]

\* no setup.py at the package root
NoDescriptor == Descriptor(None, None, <<>>)

Descriptors ==
    { \* name="docassemble.pkg", install_requires=[]
      Descriptor("\"", "docassemble.pkg", << <<>> >>),
      \* name="docassemble.pkg", install_requires=["foo>=1.2"]
      Descriptor("\"", "docassemble.pkg",
                 << <<"\"", "f", "o", "o", ">", "=", "1", ".", "2", "\"">> >>),
      \* name='docassemble.pkg', install_requires=['foo', "bar == 1.0"]
      Descriptor("'", "docassemble.pkg",
                 << <<"'", "f", "o", "o", "'", ",", " ",
                      "\"", "b", "a", "r", " ", "=", "=", " ", "1", ".", "0", "\"">> >>),
      \* name="docassemble.pkg" and no install_requires
      Descriptor("\"", "docassemble.pkg", <<>>) }

\* dependency maps given to the step-3 lookup (lines 399-421)
DependencyMaps ==
    { <<>>,
      [n \in {"foo"} |-> Dep(None, None)],
      [n \in {"foo"} |-> Dep(">=", "1.2")],
      [n \in {"foo"} |-> Dep(">", "1.0")],
      [n \in {"foo"} |-> Dep("<", "1.2")],
      [n \in {"foo"} |-> Dep("<=", "1.0")],
      [n \in {"foo"} |-> Dep("==", "1.5.0")],
      [n \in {"docassemble-bar"} |-> Dep("==", "1.2")],
      [n \in {"foo", "docassemble-bar"} |->
          IF n = "foo" THEN Dep(">=", "1.2") ELSE Dep("==", "1.2")] }

PackageNames == {None, "docassemble.pkg"}

\* packages the server may report as installed
RemotePackages ==
    { [name |-> "docassemble.pkg", version |-> "1.0"],
      [name |-> "foo", version |-> "1.0"],
      [name |-> "foo", version |-> "1.5.0"],
      [name |-> "docassemble.bar", version |-> "1.2"],
      [name |-> "docassemble", version |-> "1.5.2"],
      [name |-> "docassemble", version |-> "1.5.3"] }

PackageLists == UNION { [1..n -> RemotePackages] : n \in 0..MaxPkgs }

Unbound == [kind |-> "unbound", status_code |-> 0, status |-> None, ok |-> FALSE]
Answer(code, st, ok) == [kind |-> "response", status_code |-> code, status |-> st, ok |-> ok]

\* answers of the status endpoint: a pending answer reports no outcome flag
StatusAnswers ==
    { Answer(200, "working", FALSE),
      Answer(200, "completed", TRUE),
      Answer(200, "completed", FALSE),
      Answer(200, "unknown", FALSE),
      Answer(500, None, FALSE) }

NoInfo == [status |-> None, ok |-> FALSE]

Returned(v) == [kind |-> "return", value |-> v]
Raised(e) == [kind |-> "raise", value |-> e]
Running == [kind |-> "running", value |-> None]

NoData == [restart |-> None, project |-> None]

\* a requests.Response as far as lines 451-459 read it
Response(code, body) == [status_code |-> code, text |-> body]
NoResponse == Response(0, "")

\* a request as issued: endpoint, source line of the call, timeout argument
\* (0: none given), form fields, and the answer where the code reads it
Request(name, line, timeout, fields, answer) ==
    [req |-> name, line |-> line, timeout |-> timeout, data |-> fields, answer |-> answer]

NetworkFailure == "network failure"

\* root_directory = None (line 353): no path
NoDirectory == <<>>

\* no call of add_or_update_env so far
NoCall == [apiurl |-> None, apikey |-> None]

\* select_server has not returned
NoServer == [apiurl |-> None, apikey |-> None, name |-> None]

\* the server list is not in use
EnvStart ==
    /\ env = <<>>
    /\ call = NoCall
    /\ selected_server = NoServer

\* the directory walk has not started
WalkStart ==
    /\ fs = <<>>
    /\ to_ignore = {}
    /\ pending = <<>>
    /\ visited = <<>>
    /\ root_directory = NoDirectory
    /\ parsed = <<>>
    /\ zf = {}

\* the watch command has not started
WatchStart ==
    /\ LAST_MODIFIED = [time |-> 0, files |-> {}, restart |-> FALSE]
    /\ wake = 0
    /\ printed = {}
    /\ wpc = "check"
    /\ hpc = "idle"
    /\ event = None
    /\ now = 1
    /\ occurred = {}
    /\ first_event = 0
    /\ last_event = 0
    /\ invocations = <<>>
    /\ observer = "started"
    /\ raised = None

Init ==
    /\ pc = "walk"
    /\ playground \in Playgrounds
    /\ restart \in RestartModes
    /\ has_python_files = FALSE
    /\ this_package_name = None
    /\ dependencies = <<>>
    /\ already_installed = FALSE
    /\ should_restart = "unset"
    /\ server_version_da = "unset"
    /\ data = NoData
    /\ project_list = NoResponse
    /\ tries = 0
    /\ r = Unbound
    /\ info = NoInfo
    /\ success = "unset"
    /\ slept = FALSE
    /\ installed_msg = FALSE
    /\ ret = Running
    /\ exit_code = -1
    /\ log = <<>>
    /\ nStatus = 0
    /\ clean = TRUE
    /\ setup_text = NoDescriptor
    /\ package_list = <<>>
    /\ restart_param = "auto"
    /\ WatchStart
    /\ WalkStart
    /\ EnvStart

-----------------------------------------------------------------------------
(* package_installer *)

Issue(name, line, timeout, fields, answer) ==
    log' = Append(log, Request(name, line, timeout, fields, answer))

Return(v) == pc' = "returned" /\ ret' = Returned(v)
Raise(e) == pc' = "raised" /\ ret' = Raised(e)

\* lines 344-386: the directory walk sets the three scan results
Walk ==
    /\ pc = "walk"
    /\ has_python_files' \in BOOLEAN
    /\ \E descriptor \in Descriptors \cup {NoDescriptor} :
         /\ this_package_name' = ScanName(descriptor)
         /\ dependencies' = ScanDependencies(descriptor)
    /\ pc' = "decide"
    /\ UNCHANGED outsideInstaller
    /\ UNCHANGED <<project_list, playground, restart, already_installed, should_restart,
                   server_version_da, data, tries, r, info, success, slept,
                   installed_msg, ret, exit_code, log, nStatus, clean>>

\* lines 387-390, 422-423: the branches that decide without a remote call
Decide ==
    /\ pc = "decide"
    /\ LET b == RestartBranch(restart, has_python_files, dependencies, this_package_name)
       IN  /\ b # "lookup"
           /\ should_restart' = IF b = "no" THEN "False" ELSE "True"
    /\ pc' = "decided"
    /\ UNCHANGED outsideInstaller
    /\ UNCHANGED <<project_list, playground, restart, has_python_files, this_package_name,
                   dependencies, already_installed, server_version_da, data,
                   tries, r, info, success, slept, installed_msg, ret,
                   exit_code, log, nStatus, clean>>

\* lines 391-421: the step-3 package-list query and the lookup
PackageListQuery ==
    /\ pc = "decide"
    /\ RestartBranch(restart, has_python_files, dependencies, this_package_name) = "lookup"
    /\ \/ /\ Issue("GET /api/package", 393, Timeout, NoData, NetworkFailure)
          /\ Raise("ClickException")
          /\ UNCHANGED <<dependencies, already_installed, should_restart>>
       \/ /\ Issue("GET /api/package", 393, Timeout, NoData, "500")
          /\ Return("/api/package returned")
          /\ UNCHANGED <<dependencies, already_installed, should_restart>>
       \/ \E installed_packages \in PackageLists :
            LET res == RemoteLookup(installed_packages, dependencies, this_package_name)
            IN  /\ Issue("GET /api/package", 393, Timeout, NoData, "200")
                /\ dependencies' = res.dependencies
                /\ already_installed' = res.already_installed
                /\ should_restart' =
                     IF ShouldRestartAfterLookup(res.already_installed, res.dependencies)
                     THEN "True" ELSE "False"
                /\ pc' = "decided"
                /\ ret' = ret
    /\ UNCHANGED outsideInstaller
    /\ UNCHANGED <<project_list, playground, restart, has_python_files, this_package_name,
                   server_version_da, data, tries, r, info, success, slept,
                   installed_msg, exit_code, nStatus, clean>>

\* the status code of an answer
StatusCode(answer) ==
    CASE answer \in {"200", "200 task_id", "200 not json"} -> 200
      [] answer = "204" -> 204
      [] answer \in {"400 Invalid project.", "400 other"} -> 400
      [] answer = "403" -> 403
      [] answer = "500" -> 500

\* Response.raise_for_status(), line 431: raises for the 4xx and 5xx codes
raise_for_status(status_code) == 400 <= status_code /\ status_code < 600

\* lines 434-436: the version of the last package named "docassemble"
RECURSIVE VersionFrom(_, _, _)
VersionFrom(installed_packages, i, cur) ==
    IF i > Len(installed_packages) THEN cur
    ELSE VersionFrom(installed_packages, i + 1,
                     IF installed_packages[i].name = "docassemble"
                     THEN installed_packages[i].version ELSE cur)

\* lines 425-440 (should_restart true): the server-version query
ServerVersionQuery ==
    /\ pc = "decided"
    /\ should_restart = "True"
    /\ \/ /\ Issue("GET /api/package", 427, 0, NoData, NetworkFailure)
          /\ Raise("ClickException")
          /\ UNCHANGED server_version_da
       \/ \E answer \in {"204", "403", "500"} :
            /\ Issue("GET /api/package", 427, 0, NoData, answer)
            /\ IF raise_for_status(StatusCode(answer))
               THEN Raise("ClickException")
               ELSE pc' = "target" /\ ret' = ret
            /\ UNCHANGED server_version_da
       \/ \E installed_packages \in PackageLists :
            /\ Issue("GET /api/package", 427, 0, NoData, "200")
            /\ server_version_da' = VersionFrom(installed_packages, 1, server_version_da)
            /\ pc' = "target"
            /\ ret' = ret
    /\ UNCHANGED outsideInstaller
    /\ UNCHANGED <<project_list, playground, restart, has_python_files, this_package_name,
                   dependencies, already_installed, should_restart, data, tries,
                   r, info, success, slept, installed_msg, exit_code, nStatus,
                   clean>>

\* lines 441-443 (should_restart false)
NoRestart ==
    /\ pc = "decided"
    /\ should_restart = "False"
    /\ server_version_da' = "norestart"
    /\ data' = [data EXCEPT !.restart = "0"]
    /\ pc' = "target"
    /\ UNCHANGED outsideInstaller
    /\ UNCHANGED <<project_list, playground, restart, has_python_files, this_package_name,
                   dependencies, already_installed, should_restart, tries, r,
                   info, success, slept, installed_msg, ret, exit_code, log,
                   nStatus, clean>>

\* bodies of the project-list answer
ProjectListBodies == {"[]", "[\"default\", \"proj\"]", "proj"}

\* iterating a Response yields its content as bytes chunks
ResponseChunks(body) == { [type |-> "bytes", val |-> body] }

\* Python ==: a str never equals a bytes object
PyEq(a, b) == a.type = b.type /\ a.val = b.val

\* `playground in project_list`, line 452: membership by iteration
InProjectList(project, body) ==
    \E chunk \in ResponseChunks(body) : PyEq([type |-> "str", val |-> project], chunk)

\* lines 446-452, 457-459: the project list
ProjectList ==
    /\ pc = "target"
    /\ playground # ""
    /\ data' = IF playground # "default" THEN [data EXCEPT !.project = playground] ELSE data
    /\ \/ /\ Issue("GET /api/playground/project", 450, 0, NoData, NetworkFailure)
          /\ Raise("ConnectionError")
          /\ UNCHANGED project_list
       \/ /\ Issue("GET /api/playground/project", 450, 0, NoData, "500")
          /\ project_list' = Response(500, "")
          /\ Return("playground list of projects GET returned")
       \/ \E body \in ProjectListBodies :
            /\ Issue("GET /api/playground/project", 450, 0, NoData, "200")
            /\ project_list' = Response(200, body)
            /\ pc' = IF ~InProjectList(playground, body) THEN "create_project" ELSE "submit"
            /\ ret' = ret
    /\ UNCHANGED outsideInstaller
    /\ UNCHANGED <<playground, restart, has_python_files, this_package_name,
                   dependencies, already_installed, should_restart,
                   server_version_da, tries, r, info, success, slept,
                   installed_msg, exit_code, nStatus, clean>>

ProjectOnly(project) == [restart |-> None, project |-> project]

\* lines 453-456: create the project; the answer is not read
CreateMissingProject ==
    /\ pc = "create_project"
    /\ \/ /\ Issue("POST /api/playground/project", 454, 0, ProjectOnly(playground), NetworkFailure)
          /\ Return("create project POST returned")
       \/ /\ Issue("POST /api/playground/project", 454, 0, ProjectOnly(playground), "")
          /\ pc' = "submit"
          /\ ret' = ret
    /\ UNCHANGED outsideInstaller
    /\ UNCHANGED <<project_list, playground, restart, has_python_files, this_package_name,
                   dependencies, already_installed, should_restart,
                   server_version_da, data, tries, r, info, success, slept,
                   installed_msg, exit_code, nStatus, clean>>

\* answers to an archive submission
SubmitAnswers ==
    {"200 task_id", "200 not json", "204", "400 Invalid project.", "400 other", "500"}

\* r.json() of a 400 answer, "" when it raises (lines 466-469)
error_message(answer) ==
    IF answer = "400 Invalid project." THEN "Invalid project." ELSE ""

RetryAlways(fields, answer) == TRUE

\* line 470, negated: the 400 answer is the one that is retried
Retry(fields, answer) ==
    ~(fields.project = None \/ error_message(answer) # "Invalid project.")

AfterSubmitRetrying(answer) ==
    CASE answer = "400 Invalid project." ->
            pc' = "retry_create" /\ ret' = ret /\ UNCHANGED success
      [] StatusCode(answer) = 200 /\ answer = "200 not json" ->
            Return("r.text") /\ UNCHANGED success
      [] StatusCode(answer) = 200 /\ answer # "200 not json" ->
            IF server_version_da = "unset"
            THEN Raise("UnboundLocalError") /\ UNCHANGED success
            ELSE pc' = "poll" /\ ret' = ret /\ UNCHANGED success
      [] StatusCode(answer) = 204 ->
            pc' = "waited" /\ ret' = ret /\ success' = "True"
      [] OTHER ->
            Return("playground_install POST returned") /\ UNCHANGED success

\* lines 485-496: what the answer to the (last) submission leads to
AfterSubmit(answer) ==
    CASE StatusCode(answer) = 200 /\ answer = "200 not json" ->
            Return("r.text") /\ UNCHANGED success
      [] StatusCode(answer) = 200 /\ answer # "200 not json" ->
            IF server_version_da = "unset"
            THEN Raise("UnboundLocalError") /\ UNCHANGED success
            ELSE pc' = "poll" /\ ret' = ret /\ UNCHANGED success
      [] StatusCode(answer) = 204 ->
            pc' = "waited" /\ ret' = ret /\ success' = "True"
      [] OTHER ->
            Return("playground_install POST returned") /\ UNCHANGED success

\* lines 460-471 and, unless the 400 retry is taken, 485-496
SubmitPlayground ==
    /\ pc = "submit"
    /\ \/ /\ Issue("POST /api/playground_install", 461, Timeout, data, NetworkFailure)
          /\ Raise("ClickException")
          /\ UNCHANGED success
       \/ \E answer \in SubmitAnswers :
            /\ Issue("POST /api/playground_install", 461, Timeout, data, answer)
            /\ IF StatusCode(answer) = 400
               THEN IF Retry(data, answer)
                    THEN pc' = "retry_create" /\ ret' = ret /\ UNCHANGED success
                    ELSE Return("playground_install POST returned") /\ UNCHANGED success
               ELSE AfterSubmit(answer)
    /\ UNCHANGED outsideInstaller
    /\ UNCHANGED <<project_list, playground, restart, has_python_files, this_package_name,
                   dependencies, already_installed, should_restart,
                   server_version_da, data, tries, r, info, slept,
                   installed_msg, exit_code, nStatus, clean>>

\* lines 472-479: create the project after "Invalid project."
CreateInvalidProject ==
    /\ pc = "retry_create"
    /\ \/ /\ Issue("POST /api/playground/project", 473, Timeout, ProjectOnly(data.project), NetworkFailure)
          /\ Raise("ClickException")
       \/ /\ \E answer \in {"200", "400", "500"} :
                Issue("POST /api/playground/project", 473, Timeout, ProjectOnly(data.project), answer)
          /\ Return("needed to create playground project")
       \/ /\ Issue("POST /api/playground/project", 473, Timeout, ProjectOnly(data.project), "204")
          /\ pc' = "resubmit"
          /\ ret' = ret
    /\ UNCHANGED outsideInstaller
    /\ UNCHANGED <<project_list, playground, restart, has_python_files, this_package_name,
                   dependencies, already_installed, should_restart,
                   server_version_da, data, tries, r, info, success, slept,
                   installed_msg, exit_code, nStatus, clean>>

\* lines 480-496: the second submission
Resubmit ==
    /\ pc = "resubmit"
    /\ \/ /\ Issue("POST /api/playground_install", 481, Timeout, data, NetworkFailure)
          /\ Raise("ClickException")
          /\ UNCHANGED success
       \/ \E answer \in SubmitAnswers :
            /\ Issue("POST /api/playground_install", 481, Timeout, data, answer)
            /\ AfterSubmit(answer)
    /\ UNCHANGED outsideInstaller
    /\ UNCHANGED <<project_list, playground, restart, has_python_files, this_package_name,
                   dependencies, already_installed, should_restart,
                   server_version_da, data, tries, r, info, slept,
                   installed_msg, exit_code, nStatus, clean>>

\* lines 503-511: package mode submission
SubmitPackage ==
    /\ pc = "target"
    /\ playground = ""
    /\ \/ /\ Issue("POST /api/package", 504, Timeout, data, NetworkFailure)
          /\ Raise("ClickException")
       \/ \E answer \in {"200 task_id", "204", "400 other", "500"} :
            /\ Issue("POST /api/package", 504, Timeout, data, answer)
            /\ IF StatusCode(answer) # 200
               THEN Return("package POST returned")
               ELSE IF server_version_da = "unset"
                    THEN Raise("UnboundLocalError")
                    ELSE pc' = "poll" /\ ret' = ret
    /\ UNCHANGED outsideInstaller
    /\ UNCHANGED <<project_list, playground, restart, has_python_files, this_package_name,
                   dependencies, already_installed, should_restart,
                   server_version_da, data, tries, r, info, success, slept,
                   installed_msg, exit_code, nStatus, clean>>

-----------------------------------------------------------------------------
(* wait_for_server, lines 297-337 *)

LoopContinuesInclusive(t) == t <= MaxTries

\* the loop condition, line 301
LoopContinues(t) == t < MaxTries

\* line 313
Terminal(i) == i.status = "completed" \/ i.status = "unknown"

SuccessOfStatusOnly(is_playground, i) == i.status = "completed"

SuccessOfTerminal(is_playground, i) ==
    IF is_playground THEN Terminal(i) ELSE i.ok

\* lines 318-323
SuccessOf(is_playground, i) ==
    IF is_playground THEN i.status = "completed" ELSE i.ok

NeedsSettleUpTo(version) ==
    ~(version = "norestart" \/ VersionCmp(parse(version), parse("1.5.3")) > 0)

\* line 324, negated: the condition of the settle sleep
NeedsSettle(version) ==
    ~(version = "norestart" \/ VersionCmp(parse(version), parse("1.5.3")) >= 0)

\* lines 301-316: one iteration of the polling loop
Poll ==
    /\ pc = "poll"
    /\ nStatus' = nStatus + 1
    /\ \E answer \in StatusAnswers \cup {Unbound} :
         \* Unbound stands for the request raising RequestException (line 308):
         \* r keeps the value it had
         LET failed == answer = Unbound
             rr == IF failed THEN r ELSE answer
         IN  /\ clean' = (clean /\ ~failed)
             /\ r' = rr
             /\ IF rr = Unbound
                THEN /\ Raise("UnboundLocalError")
                     /\ UNCHANGED <<info, tries, success>>
                ELSE IF rr.status_code # 200
                THEN /\ success' = "package_update_status returned"
                     /\ pc' = "waited"
                     /\ UNCHANGED <<info, tries, ret>>
                ELSE /\ info' = [status |-> rr.status, ok |-> rr.ok]
                     /\ ret' = ret
                     /\ UNCHANGED success
                     /\ IF Terminal(info')
                        THEN /\ pc' = "after_loop"
                             /\ UNCHANGED tries
                        ELSE /\ tries' = tries + 1
                             /\ pc' = IF LoopContinues(tries') THEN "poll" ELSE "after_loop"
    /\ UNCHANGED outsideInstaller
    /\ UNCHANGED <<project_list, playground, restart, has_python_files, this_package_name,
                   dependencies, already_installed, should_restart,
                   server_version_da, data, slept, installed_msg, exit_code,
                   log>>

\* lines 317-337: the result once the loop has ended
AfterLoop ==
    /\ pc = "after_loop"
    /\ success' = IF SuccessOf(playground # "", info) THEN "True" ELSE "False"
    /\ slept' = NeedsSettle(server_version_da)
    /\ pc' = "waited"
    /\ UNCHANGED outsideInstaller
    /\ UNCHANGED <<project_list, playground, restart, has_python_files, this_package_name,
                   dependencies, already_installed, should_restart,
                   server_version_da, data, tries, r, info, installed_msg, ret,
                   exit_code, log, nStatus, clean>>

\* Python truth value of what wait_for_server returned
Truthy(v) == v # "False"

\* lines 497-501 and 522
FinishPlayground ==
    /\ pc = "waited"
    /\ playground # ""
    /\ IF Truthy(success)
       THEN installed_msg' = TRUE /\ Return("0")
       ELSE UNCHANGED installed_msg /\ Return("1")
    /\ UNCHANGED outsideInstaller
    /\ UNCHANGED <<project_list, playground, restart, has_python_files, this_package_name,
                   dependencies, already_installed, should_restart,
                   server_version_da, data, tries, r, info, success, slept,
                   exit_code, log, nStatus, clean>>

\* lines 512-514 and, when restarting, 522
FinishPackage ==
    /\ pc = "waited"
    /\ playground = ""
    /\ installed_msg' = Truthy(success)
    /\ IF should_restart = "False"
       THEN pc' = "clear_cache" /\ ret' = ret
       ELSE Return("0")
    /\ UNCHANGED outsideInstaller
    /\ UNCHANGED <<project_list, playground, restart, has_python_files, this_package_name,
                   dependencies, already_installed, should_restart,
                   server_version_da, data, tries, r, info, success, slept,
                   exit_code, log, nStatus, clean>>

\* lines 515-522
ClearCache ==
    /\ pc = "clear_cache"
    /\ \/ /\ Issue("POST /api/clear_cache", 516, Timeout, NoData, NetworkFailure)
          /\ Raise("ClickException")
       \/ /\ Issue("POST /api/clear_cache", 516, Timeout, NoData, "500")
          /\ Return("clear_cache returned")
       \/ /\ Issue("POST /api/clear_cache", 516, Timeout, NoData, "204")
          /\ Return("0")
    /\ UNCHANGED outsideInstaller
    /\ UNCHANGED <<project_list, playground, restart, has_python_files, this_package_name,
                   dependencies, already_installed, should_restart,
                   server_version_da, data, tries, r, info, success, slept,
                   installed_msg, exit_code, nStatus, clean>>

-----------------------------------------------------------------------------
(* The install command, lines 532-546 *)

\* lines 545-546: the value of package_installer is dropped and 0 returned;
\* an exception leaves the command with a non-zero status
InstallExit ==
    /\ pc \in {"returned", "raised"}
    /\ exit_code' = IF pc = "raised" THEN 1 ELSE 0
    /\ pc' = "exit"
    /\ UNCHANGED outsideInstaller
    /\ UNCHANGED <<project_list, playground, restart, has_python_files, this_package_name,
                   dependencies, already_installed, should_restart,
                   server_version_da, data, tries, r, info, success, slept,
                   installed_msg, ret, log, nStatus, clean>>

Next ==
    \/ Walk \/ Decide \/ PackageListQuery \/ ServerVersionQuery \/ NoRestart
    \/ ProjectList \/ CreateMissingProject \/ SubmitPlayground
    \/ CreateInvalidProject \/ Resubmit \/ SubmitPackage
    \/ Poll \/ AfterLoop \/ FinishPlayground \/ FinishPackage \/ ClearCache
    \/ InstallExit

Spec == Init /\ [][Next]_vars

-----------------------------------------------------------------------------
(* The manifest alone: the descriptor scan (lines 362-378) followed by the  *)
(* step-3 lookup (lines 398-421) on an answered package list.  The scan     *)
(* starts from a descriptor text; the lookup is also started directly from  *)
(* a dependency map.                                                        *)

ManifestInit ==
    /\ \/ /\ pc = "scan"
          /\ setup_text \in Descriptors
          /\ this_package_name = None
          /\ dependencies = <<>>
       \/ /\ pc = "lookup"
          /\ setup_text = NoDescriptor
          /\ this_package_name \in PackageNames
          /\ dependencies \in DependencyMaps
    /\ playground = ""
    /\ restart = "auto"
    /\ has_python_files = FALSE
    /\ already_installed = FALSE
    /\ should_restart = "unset"
    /\ server_version_da = "unset"
    /\ data = NoData
    /\ project_list = NoResponse
    /\ tries = 0
    /\ r = Unbound
    /\ info = NoInfo
    /\ success = "unset"
    /\ slept = FALSE
    /\ installed_msg = FALSE
    /\ ret = Running
    /\ exit_code = -1
    /\ log = <<>>
    /\ nStatus = 0
    /\ clean = TRUE
    /\ package_list = <<>>
    /\ restart_param = "auto"
    /\ WatchStart
    /\ WalkStart
    /\ EnvStart

\* lines 362-378
Scan ==
    /\ pc = "scan"
    /\ this_package_name' = ScanName(setup_text)
    /\ dependencies' = ScanDependencies(setup_text)
    /\ pc' = "lookup"
    /\ UNCHANGED <<project_list, playground, restart, has_python_files, already_installed,
                   should_restart, server_version_da, data, tries, r, info,
                   success, slept, installed_msg, ret, exit_code, log, nStatus,
                   clean, setup_text, package_list, watchVars, walkVars, envVars>>

\* lines 391 and 398-421, the query of line 393 being answered 200
Lookup ==
    /\ pc = "lookup"
    /\ RestartBranch(restart, has_python_files, dependencies, this_package_name) = "lookup"
    /\ \E installed_packages \in PackageLists :
         LET res == RemoteLookup(installed_packages, dependencies, this_package_name)
         IN  /\ package_list' = installed_packages
             /\ dependencies' = res.dependencies
             /\ already_installed' = res.already_installed
             /\ should_restart' =
                  IF ShouldRestartAfterLookup(res.already_installed, res.dependencies)
                  THEN "True" ELSE "False"
    /\ pc' = "looked"
    /\ UNCHANGED <<project_list, playground, restart, has_python_files, this_package_name,
                   server_version_da, data, tries, r, info, success, slept,
                   installed_msg, ret, exit_code, log, nStatus, clean,
                   setup_text, watchVars, walkVars, envVars>>

ManifestNext == Scan \/ Lookup

SpecManifest == ManifestInit /\ [][ManifestNext]_vars

-----------------------------------------------------------------------------
(* The watch command, lines 592-633, and WatchHandler.on_any_event, lines   *)
(* 571-581.  The observer thread runs on_any_event, the main thread runs    *)
(* the drain loop; each statement that reads or writes LAST_MODIFIED is one *)
(* step, and the steps of the two threads interleave.  Time is counted in   *)
(* seconds; a callback, once started, ends within the second.               *)

\* last value of the clock
MaxTime == 5

\* --buffer, line 591 (default)
Buffer == 3

\* the sleep between two ticks, line 627
TickSleep == 1

\* files whose modification is reported, each once
Paths == {"a.yml", "b.yml", "m.py"}

\* str(event.src_path).endswith(".py"), line 580
endswith_py(path) == path = "m.py"

\* the package_installer variables, which the watch steps leave alone
installerVars ==
    <<pc, playground, has_python_files, this_package_name, dependencies,
      already_installed, should_restart, server_version_da, data, project_list,
      tries, r, info, success, slept, installed_msg, ret, exit_code, log,
      nStatus, clean, setup_text, package_list, walkVars, envVars>>

\* how the session ends: written by the steps of lines 628-633 only
sessionVars == <<observer, raised>>

WatchInit ==
    /\ restart_param \in RestartModes
    /\ restart = restart_param
    /\ WatchStart
    /\ pc = "watch"
    /\ playground = ""
    /\ has_python_files = FALSE
    /\ this_package_name = None
    /\ dependencies = <<>>
    /\ already_installed = FALSE
    /\ should_restart = "unset"
    /\ server_version_da = "unset"
    /\ data = NoData
    /\ project_list = NoResponse
    /\ tries = 0
    /\ r = Unbound
    /\ info = NoInfo
    /\ success = "unset"
    /\ slept = FALSE
    /\ installed_msg = FALSE
    /\ ret = Running
    /\ exit_code = -1
    /\ log = <<>>
    /\ nStatus = 0
    /\ clean = TRUE
    /\ setup_text = NoDescriptor
    /\ package_list = <<>>
    /\ WalkStart
    /\ EnvStart

\* line 578: a qualifying event is delivered and its time recorded
OnEventTime ==
    /\ hpc = "idle"
    /\ observer = "started"
    /\ \E path \in Paths \ occurred :
         /\ event' = path
         /\ occurred' = occurred \cup {path}
    /\ LAST_MODIFIED' = [LAST_MODIFIED EXCEPT !.time = now]
    /\ first_event' = IF occurred = {} THEN now ELSE first_event
    /\ last_event' = now
    /\ hpc' = "files"
    /\ UNCHANGED <<restart, restart_param, wake, printed, wpc, now, invocations>>
    /\ UNCHANGED installerVars
    /\ UNCHANGED sessionVars

\* line 579
OnEventFiles ==
    /\ hpc = "files"
    /\ LAST_MODIFIED' = [LAST_MODIFIED EXCEPT !.files = @ \cup {event}]
    /\ IF endswith_py(event)
       THEN hpc' = "restart" /\ UNCHANGED event
       ELSE hpc' = "idle" /\ event' = None
    /\ UNCHANGED <<restart, restart_param, wake, printed, wpc, now, occurred,
                   first_event, last_event, invocations>>
    /\ UNCHANGED installerVars
    /\ UNCHANGED sessionVars

\* lines 580-581
OnEventRestart ==
    /\ hpc = "restart"
    /\ LAST_MODIFIED' = [LAST_MODIFIED EXCEPT !.restart = TRUE]
    /\ hpc' = "idle"
    /\ event' = None
    /\ UNCHANGED <<restart, restart_param, wake, printed, wpc, now, occurred,
                   first_event, last_event, invocations>>
    /\ UNCHANGED installerVars
    /\ UNCHANGED sessionVars

WakeAfterNoWait(t, seconds) == t

\* time.sleep(seconds) started at time t ends at
WakeAfter(t, seconds) == t + seconds

\* line 613, once the sleep of line 627 is over; when the time is not set
\* the loop sleeps again
Check ==
    /\ wpc = "check"
    /\ now >= wake
    /\ IF LAST_MODIFIED.time # 0
       THEN wpc' = "classify" /\ UNCHANGED wake
       ELSE wpc' = "check" /\ wake' = WakeAfter(now, TickSleep)
    /\ UNCHANGED <<LAST_MODIFIED, restart, restart_param, printed, hpc, event,
                   now, occurred, first_event, last_event, invocations>>
    /\ UNCHANGED installerVars
    /\ UNCHANGED sessionVars

\* lines 615-619: the restart mode of the batch; the buffer sleep begins
Classify ==
    /\ wpc = "classify"
    /\ IF restart_param = "yes" \/ (restart_param = "auto" /\ LAST_MODIFIED.restart)
       THEN restart' = "yes" /\ wake' = WakeAfter(now, Buffer)
       ELSE restart' = "no" /\ UNCHANGED wake
    /\ wpc' = "read"
    /\ UNCHANGED <<LAST_MODIFIED, restart_param, printed, hpc, event, now,
                   occurred, first_event, last_event, invocations>>
    /\ UNCHANGED installerVars
    /\ UNCHANGED sessionVars

\* line 620, once the sleep of line 617 is over: the iteration over the keys
\* of LAST_MODIFIED["files"] begins
ReadFiles ==
    /\ wpc = "read"
    /\ now >= wake
    /\ printed' = LAST_MODIFIED.files
    /\ wpc' = "reading"
    /\ UNCHANGED <<LAST_MODIFIED, restart, restart_param, wake, hpc, event, now,
                   occurred, first_event, last_event, invocations>>
    /\ UNCHANGED installerVars
    /\ UNCHANGED sessionVars

\* lines 620-621: the iteration ends; a key stored by on_any_event since it
\* began makes the iterator raise RuntimeError (dictionary changed size during
\* iteration), which leaves the loop for the handler of line 628
ReadEnd ==
    /\ wpc = "reading"
    /\ IF LAST_MODIFIED.files # printed
       THEN wpc' = "except" /\ raised' = "RuntimeError"
       ELSE wpc' = "clear_time" /\ UNCHANGED raised
    /\ UNCHANGED <<LAST_MODIFIED, restart, restart_param, wake, printed, hpc,
                   event, now, occurred, first_event, last_event, invocations,
                   observer>>
    /\ UNCHANGED installerVars

\* line 622
ClearTime ==
    /\ wpc = "clear_time"
    /\ LAST_MODIFIED' = [LAST_MODIFIED EXCEPT !.time = 0]
    /\ wpc' = "clear_files"
    /\ UNCHANGED <<restart, restart_param, wake, printed, hpc, event, now,
                   occurred, first_event, last_event, invocations>>
    /\ UNCHANGED installerVars
    /\ UNCHANGED sessionVars

\* line 623
ClearFiles ==
    /\ wpc = "clear_files"
    /\ LAST_MODIFIED' = [LAST_MODIFIED EXCEPT !.files = {}]
    /\ wpc' = "clear_restart"
    /\ UNCHANGED <<restart, restart_param, wake, printed, hpc, event, now,
                   occurred, first_event, last_event, invocations>>
    /\ UNCHANGED installerVars
    /\ UNCHANGED sessionVars

\* line 624
ClearRestart ==
    /\ wpc = "clear_restart"
    /\ LAST_MODIFIED' = [LAST_MODIFIED EXCEPT !.restart = FALSE]
    /\ wpc' = "install"
    /\ UNCHANGED <<restart, restart_param, wake, printed, hpc, event, now,
                   occurred, first_event, last_event, invocations>>
    /\ UNCHANGED installerVars
    /\ UNCHANGED sessionVars

\* line 625: package_installer is called for the files listed
InstallStart ==
    /\ wpc = "install"
    /\ invocations' = Append(invocations, [files |-> printed, restart |-> restart])
    /\ wpc' = "installing"
    /\ UNCHANGED <<LAST_MODIFIED, restart, restart_param, wake, printed, hpc,
                   event, now, occurred, first_event, last_event>>
    /\ UNCHANGED installerVars
    /\ UNCHANGED sessionVars

\* lines 625-627: package_installer comes back and the loop sleeps
InstallEnd ==
    /\ wpc = "installing"
    /\ wpc' = "check"
    /\ wake' = WakeAfter(now, TickSleep)
    /\ UNCHANGED <<LAST_MODIFIED, restart, restart_param, printed, hpc, event,
                   now, occurred, first_event, last_event, invocations>>
    /\ UNCHANGED installerVars
    /\ UNCHANGED sessionVars

\* line 625: package_installer raises (the click.ClickException of lines
\* 395-518, or whatever its requests raise), which leaves the loop for the
\* handler of line 628
InstallRaise ==
    /\ wpc = "installing"
    /\ wpc' = "except"
    /\ raised' = "Exception"
    /\ UNCHANGED <<LAST_MODIFIED, restart, restart_param, wake, printed, hpc,
                   event, now, occurred, first_event, last_event, invocations,
                   observer>>
    /\ UNCHANGED installerVars

\* the positions of the while loop of lines 612-627
LoopPositions ==
    {"check", "classify", "read", "reading", "clear_time", "clear_files",
     "clear_restart", "install", "installing"}

\* Ctrl + c: KeyboardInterrupt in the main thread. It is no Exception, so
\* from the loop and from the handler of line 628 it goes to the finally
\* clause; inside the finally clause it leaves watch at once
Interrupt ==
    /\ wpc \in LoopPositions \cup {"except", "stop", "join", "return"}
    /\ wpc' = IF wpc \in LoopPositions \cup {"except"} THEN "stop" ELSE "aborted"
    /\ raised' = "KeyboardInterrupt"
    /\ UNCHANGED <<LAST_MODIFIED, restart, restart_param, wake, printed, hpc,
                   event, now, occurred, first_event, last_event, invocations,
                   observer>>
    /\ UNCHANGED installerVars

\* lines 628-629: the exception is printed
ExceptEcho ==
    /\ wpc = "except"
    /\ wpc' = "stop"
    /\ UNCHANGED <<LAST_MODIFIED, restart, restart_param, wake, printed, hpc,
                   event, now, occurred, first_event, last_event, invocations>>
    /\ UNCHANGED installerVars
    /\ UNCHANGED sessionVars

\* line 631: the observer is told to stop; it delivers no further event
ObserverStop ==
    /\ wpc = "stop"
    /\ observer' = "stopped"
    /\ wpc' = "join"
    /\ UNCHANGED <<LAST_MODIFIED, restart, restart_param, wake, printed, hpc,
                   event, now, occurred, first_event, last_event, invocations,
                   raised>>
    /\ UNCHANGED installerVars

ObserverJoinSkipped ==
    /\ wpc = "join"
    /\ wpc' = "return"
    /\ UNCHANGED <<LAST_MODIFIED, restart, restart_param, wake, printed, hpc,
                   event, now, occurred, first_event, last_event, invocations,
                   raised, observer>>
    /\ UNCHANGED installerVars

\* line 632: the observer thread has ended, the callback under way with it
ObserverJoin ==
    /\ wpc = "join"
    /\ hpc = "idle"
    /\ observer' = "joined"
    /\ wpc' = "return"
    /\ UNCHANGED <<LAST_MODIFIED, restart, restart_param, wake, printed, hpc,
                   event, now, occurred, first_event, last_event, invocations,
                   raised>>
    /\ UNCHANGED installerVars

\* line 633
WatchReturn ==
    /\ wpc = "return"
    /\ wpc' = "returned"
    /\ UNCHANGED <<LAST_MODIFIED, restart, restart_param, wake, printed, hpc,
                   event, now, occurred, first_event, last_event, invocations>>
    /\ UNCHANGED installerVars
    /\ UNCHANGED sessionVars

\* a second passes; no callback is under way. The steps of lines 628-633
\* sleep nowhere and read no clock: the clock stands still once the loop
\* is left
Tick ==
    /\ now < MaxTime
    /\ hpc = "idle"
    /\ wpc \in LoopPositions
    /\ now' = now + 1
    /\ UNCHANGED <<LAST_MODIFIED, restart, restart_param, wake, printed, wpc,
                   hpc, event, occurred, first_event, last_event, invocations>>
    /\ UNCHANGED installerVars
    /\ UNCHANGED sessionVars

WatchNext ==
    \/ OnEventTime \/ OnEventFiles \/ OnEventRestart
    \/ Check \/ Classify \/ ReadFiles \/ ReadEnd
    \/ ClearTime \/ ClearFiles \/ ClearRestart
    \/ InstallStart \/ InstallEnd \/ InstallRaise
    \/ Interrupt \/ ExceptEcho \/ ObserverStop \/ ObserverJoin \/ WatchReturn
    \/ Tick

SpecWatch == WatchInit /\ [][WatchNext]_vars

-----------------------------------------------------------------------------
(* The callback of the observer, lines 553-581, as a function of the watch
   state and of the event delivered *)

\* paths of events: the files of Paths, a compiled file and a file of the
\* repository directory
EventPaths == Paths \cup {"m.pyc", ".git/config"}

EventTypes == {"created", "modified", "deleted", "moved"}

Events == [src_path : EventPaths, is_directory : BOOLEAN, event_type : EventTypes]

\* lines 553-563 for a directory without .gitignore: the patterns of
\* GITIGNORE (lines 36-79) with ".git/" and ".gitignore" added; "*.py[cod]"
\* matches the compiled file and ".git/" the file of the repository directory
matches_ignore_patterns(path) == path \in {"m.pyc", ".git/config"}

on_any_eventOfAnyType(state, ev, t) ==
    IF ev.is_directory
    THEN state
    ELSE IF ~matches_ignore_patterns(ev.src_path)
         THEN [time |-> t,
               files |-> state.files \cup {ev.src_path},
               restart |-> IF endswith_py(ev.src_path) THEN TRUE ELSE state.restart]
         ELSE state

\* lines 571-581, run to its end at time t
on_any_event(state, ev, t) ==
    IF ev.is_directory
    THEN state
    ELSE IF /\ ev.event_type = "created" \/ ev.event_type = "modified"
            /\ ~matches_ignore_patterns(ev.src_path)
         THEN [time |-> t,
               files |-> state.files \cup {ev.src_path},
               restart |-> IF endswith_py(ev.src_path) THEN TRUE ELSE state.restart]
         ELSE state

\* the watch state a callback may find: lines 24-29 and whatever earlier
\* callbacks and clears left
WatchStates == [time : {0, 1}, files : SUBSET Paths, restart : BOOLEAN]

HandlerInit ==
    /\ LAST_MODIFIED \in WatchStates
    /\ now = 2
    /\ hpc = "idle"
    /\ event = None
    /\ restart_param = "auto"
    /\ restart = "auto"
    /\ wake = 0
    /\ printed = {}
    /\ wpc = "check"
    /\ occurred = {}
    /\ first_event = 0
    /\ last_event = 0
    /\ invocations = <<>>
    /\ observer = "started"
    /\ raised = None
    /\ pc = "watch"
    /\ playground = ""
    /\ has_python_files = FALSE
    /\ this_package_name = None
    /\ dependencies = <<>>
    /\ already_installed = FALSE
    /\ should_restart = "unset"
    /\ server_version_da = "unset"
    /\ data = NoData
    /\ project_list = NoResponse
    /\ tries = 0
    /\ r = Unbound
    /\ info = NoInfo
    /\ success = "unset"
    /\ slept = FALSE
    /\ installed_msg = FALSE
    /\ ret = Running
    /\ exit_code = -1
    /\ log = <<>>
    /\ nStatus = 0
    /\ clean = TRUE
    /\ setup_text = NoDescriptor
    /\ package_list = <<>>
    /\ WalkStart
    /\ EnvStart

\* the observer delivers an event and on_any_event runs to its end
Deliver ==
    /\ hpc = "idle"
    /\ \E ev \in Events :
         /\ event' = ev
         /\ LAST_MODIFIED' = on_any_event(LAST_MODIFIED, ev, now)
    /\ hpc' = "handled"
    /\ UNCHANGED <<restart, restart_param, wake, printed, wpc, now, occurred,
                   first_event, last_event, invocations>>
    /\ UNCHANGED installerVars
    /\ UNCHANGED sessionVars

HandlerNext == Deliver

SpecHandler == HandlerInit /\ [][HandlerNext]_vars

-----------------------------------------------------------------------------
(* The directory walk of package_installer, lines 346-386.  A path is the
   sequence of its components, as str.split(os.sep) gives them: the absolute
   path "/pkg" is <<"", "pkg">>, and a line "node_modules/" of the ignore
   listing is <<"node_modules", "">>. *)

\* the package directory, made absolute at line 149
TopDirectory == <<"", "pkg">>

\* os.path.join(path, name)
join(path, name) == path \o <<name>>

Package == join(TopDirectory, "docassemble")
Modules == join(TopDirectory, "node_modules")
Lib == join(Modules, "lib")

Directories == {TopDirectory, Package, Modules, Lib}

Subdirectories(dir) ==
    CASE dir = TopDirectory -> {".git", "docassemble", "node_modules"}
      [] dir = Modules -> {"lib"}
      [] OTHER -> {}

\* the files every tree has
FixedFiles(dir) ==
    CASE dir = TopDirectory -> {"README.md", "local.yml", ".gitignore"}
      [] dir = Package -> {"__init__.py", "secret.yml", "m.pyc"}
      [] dir = Modules -> {"index.js"}
      [] dir = Lib -> {"x.py"}

\* the descriptors a tree may hold: setup.py is required of the package
\* directory when the command starts (line 152), not when the walk runs
OptionalFiles ==
    { <<TopDirectory, "setup.py">>, <<TopDirectory, "setup.cfg">>,
      <<Package, "setup.py">>, <<Modules, "setup.cfg">>, <<Lib, "setup.py">> }

Tree(present) ==
    [dir \in Directories |->
        [dirs |-> Subdirectories(dir),
         files |-> FixedFiles(dir) \cup
                   {f \in {"setup.py", "setup.cfg"} : <<dir, f>> \in present}]]

Trees == {Tree(present) : present \in SUBSET OptionalFiles}

\* the text of the setup.py of a directory
SetupPy(dir) ==
    IF dir = TopDirectory
    THEN Descriptor("\"", "docassemble.pkg", <<>>)
    ELSE Descriptor("\"", "docassemble.bar", <<>>)

\* outputs of git ls-files -i --directory -o --exclude-standard run in the
\* package directory (line 347): paths relative to it, a directory with a
\* trailing separator
IgnoreListings ==
    { {},
      {<<"node_modules", "">>},
      {<<"local.yml">>},
      {<<"docassemble", "secret.yml">>},
      {<<"node_modules", "">>, <<"local.yml">>, <<"docassemble", "secret.yml">>} }

\* path.rstrip("/"), line 352
RECURSIVE rstrip_sep(_)
rstrip_sep(path) ==
    IF path # <<>> /\ path[Len(path)] = ""
    THEN rstrip_sep(SubSeq(path, 1, Len(path) - 1))
    ELSE path

\* line 358: os.sep.join(root.split(os.sep)[1:])
adjusted_root(root) == Tail(root)

\* line 359: the names never walked into
SkipDirNames == {".git", "__pycache__", ".mypy_cache", ".venv", ".history", "build"}

\* d.endswith(".egg-info"), line 359
endswith_egg_info(d) == d = "docassemble.pkg.egg-info"

\* the name tests of line 380: ends with "~", ".pyc" or ".swp", starts with
\* "#" or ".#"
SkippedFileName(f) == f = "m.pyc"

\* the_file.endswith(".py"), line 382
EndsWithPy(f) == f \in {"setup.py", "__init__.py", "x.py"}

SetsRootAtEveryDescriptor(root_dir, files) ==
    "setup.py" \in files \/ "setup.cfg" \in files

\* line 360
SetsRoot(root_dir, files) ==
    root_dir = NoDirectory /\ ("setup.py" \in files \/ "setup.cfg" \in files)

\* the orders in which os.scandir may list a set of names
Orders(names) ==
    {order \in [1..Cardinality(names) -> names] :
        \A i, j \in 1..Cardinality(names) : i # j => order[i] # order[j]}

WalkInit ==
    /\ pc = "ls_files"
    /\ fs \in Trees
    /\ to_ignore = {}
    /\ pending = <<>>
    /\ visited = <<>>
    /\ root_directory = NoDirectory
    /\ parsed = <<>>
    /\ zf = {}
    /\ playground = ""
    /\ restart = "auto"
    /\ has_python_files = FALSE
    /\ this_package_name = None
    /\ dependencies = <<>>
    /\ already_installed = FALSE
    /\ should_restart = "unset"
    /\ server_version_da = "unset"
    /\ data = NoData
    /\ project_list = NoResponse
    /\ tries = 0
    /\ r = Unbound
    /\ info = NoInfo
    /\ success = "unset"
    /\ slept = FALSE
    /\ installed_msg = FALSE
    /\ ret = Running
    /\ exit_code = -1
    /\ log = <<>>
    /\ nStatus = 0
    /\ clean = TRUE
    /\ setup_text = NoDescriptor
    /\ package_list = <<>>
    /\ restart_param = "auto"
    /\ WatchStart
    /\ EnvStart

\* what the walk leaves alone
outsideWalk ==
    <<playground, restart, already_installed, should_restart, server_version_da,
      data, project_list, tries, r, info, success, slept, installed_msg, ret,
      exit_code, log, nStatus, clean, package_list, watchVars, envVars>>

\* lines 346-352: the ignore listing; when git fails the list is empty
IgnoreList ==
    /\ pc = "ls_files"
    /\ \/ \E raw_ignore \in IgnoreListings :
            to_ignore' = {rstrip_sep(path) : path \in raw_ignore}
       \/ to_ignore' = {}
    /\ pending' = <<TopDirectory>>
    /\ pc' = "os_walk"
    /\ UNCHANGED <<fs, visited, root_directory, parsed, zf, has_python_files,
                   this_package_name, dependencies, setup_text>>
    /\ UNCHANGED outsideWalk

\* lines 357-384: one directory yielded by os.walk
WalkStep ==
    /\ pc = "os_walk"
    /\ pending # <<>>
    /\ LET root == Head(pending)
           files == fs[root].files
           adjusted == adjusted_root(root)
           dirs == {d \in fs[root].dirs :
                      /\ d \notin SkipDirNames
                      /\ ~endswith_egg_info(d)
                      /\ join(adjusted, d) \notin to_ignore}
           sets == SetsRoot(root_directory, files)
           new_root == IF sets THEN root ELSE root_directory
           reads == sets /\ "setup.py" \in files
           kept == {f \in files :
                      ~(\/ SkippedFileName(f)
                        \/ f = ".gitignore" /\ new_root = root
                        \/ join(adjusted, f) \in to_ignore)}
       IN  /\ \E order \in Orders(dirs) :
                pending' = [i \in 1..Len(order) |-> join(root, order[i])] \o Tail(pending)
           /\ visited' = Append(visited, root)
           /\ root_directory' = new_root
           /\ parsed' = IF reads THEN Append(parsed, root) ELSE parsed
           /\ setup_text' = IF reads THEN SetupPy(root) ELSE setup_text
           /\ this_package_name' =
                 IF reads THEN ScanName(SetupPy(root)) ELSE this_package_name
           /\ dependencies' =
                 IF reads THEN ScanDependencies(SetupPy(root)) ELSE dependencies
           /\ has_python_files' =
                 (\/ has_python_files
                  \/ \E f \in kept :
                        /\ EndsWithPy(f)
                        /\ ~(f = "setup.py" /\ root = new_root)
                        /\ f # "__init__.py")
           /\ zf' = zf \cup {join(root, f) : f \in kept}
    /\ UNCHANGED <<pc, fs, to_ignore>>
    /\ UNCHANGED outsideWalk

\* lines 385-386: the walk is over and the archive closed
WalkEnd ==
    /\ pc = "os_walk"
    /\ pending = <<>>
    /\ pc' = "walked"
    /\ UNCHANGED <<has_python_files, this_package_name, dependencies, setup_text>>
    /\ UNCHANGED walkVars
    /\ UNCHANGED outsideWalk

WalkNext == IgnoreList \/ WalkStep \/ WalkEnd

SpecWalk == WalkInit /\ [][WalkNext]_vars

-----------------------------------------------------------------------------
(* The server list, lines 184-187 and 223-237 *)

\* URLs given to add_or_update_env: two of one server, one of a second
\* server, a text without scheme and the empty text
Urls ==
    {"https://da.example.com", "http://da.example.com",
     "https://dev.example.com:8080", "da.example.com", ""}

Keys == {"k1", "k2"}

\* lines 184-187: urlparse(url).netloc, empty for a text without "//"
name_from_url(url) ==
    CASE url = "https://da.example.com" -> "da.example.com"
      [] url = "http://da.example.com" -> "da.example.com"
      [] url = "https://dev.example.com:8080" -> "dev.example.com:8080"
      [] OTHER -> ""

Server(apiurl, apikey) ==
    [apiurl |-> apiurl, apikey |-> apikey, name |-> name_from_url(apiurl)]

add_or_update_envAppending(items, apiurl, apikey) ==
    Append(items, Server(apiurl, apikey))

\* lines 223-237
add_or_update_env(items, apiurl, apikey) ==
    LET apiname == name_from_url(apiurl)
        found == {i \in 1..Len(items) : items[i].name = apiname}
    IN  IF found # {}
        THEN LET first == CHOOSE i \in found : \A j \in found : i <= j
             IN  [items EXCEPT ![first] = [@ EXCEPT !.apiurl = apiurl, !.apikey = apikey]]
        ELSE Append(items, Server(apiurl, apikey))

\* server lists as read from the configuration: names pairwise distinct
SavedServers ==
    {Server("https://da.example.com", "k1"), Server("https://dev.example.com:8080", "k1")}

ServerLists ==
    {<<>>} \cup {<<a>> : a \in SavedServers}
           \cup {pair \in SavedServers \X SavedServers : pair[1] # pair[2]}

EnvInit ==
    /\ pc = "env"
    /\ env \in ServerLists
    /\ call = NoCall
    /\ selected_server = NoServer
    /\ playground = ""
    /\ restart = "auto"
    /\ has_python_files = FALSE
    /\ this_package_name = None
    /\ dependencies = <<>>
    /\ already_installed = FALSE
    /\ should_restart = "unset"
    /\ server_version_da = "unset"
    /\ data = NoData
    /\ project_list = NoResponse
    /\ tries = 0
    /\ r = Unbound
    /\ info = NoInfo
    /\ success = "unset"
    /\ slept = FALSE
    /\ installed_msg = FALSE
    /\ ret = Running
    /\ exit_code = -1
    /\ log = <<>>
    /\ nStatus = 0
    /\ clean = TRUE
    /\ setup_text = NoDescriptor
    /\ package_list = <<>>
    /\ restart_param = "auto"
    /\ WatchStart
    /\ WalkStart

\* one call of add_or_update_env on the list
AddOrUpdate ==
    /\ pc = "env"
    /\ \E apiurl \in Urls, apikey \in Keys :
         /\ call' = [apiurl |-> apiurl, apikey |-> apikey]
         /\ env' = add_or_update_env(env, apiurl, apikey)
    /\ UNCHANGED <<selected_server, pc, playground, restart, has_python_files, this_package_name,
                   dependencies, already_installed, should_restart,
                   server_version_da, data, project_list, tries, r, info,
                   success, slept, installed_msg, ret, exit_code, log, nStatus,
                   clean, setup_text, package_list>>
    /\ UNCHANGED <<watchVars, walkVars>>

\* URLs that pass the test of lines 261-275: the server answers them
ReachableUrls ==
    {"https://da.example.com", "http://da.example.com", "https://dev.example.com:8080"}

\* lines 203-204 with 278-287: select_server with an API URL and key that
\* pass the connectivity test; the command goes on with the entry returned
SelectServer ==
    /\ pc = "env"
    /\ \E apiurl \in ReachableUrls, apikey \in Keys :
         /\ call' = [apiurl |-> apiurl, apikey |-> apikey]
         /\ env' = add_or_update_env(env, apiurl, apikey)
    /\ selected_server' = env'[Len(env')]
    /\ pc' = "selected"
    /\ UNCHANGED <<playground, restart, has_python_files, this_package_name,
                   dependencies, already_installed, should_restart,
                   server_version_da, data, project_list, tries, r, info,
                   success, slept, installed_msg, ret, exit_code, log, nStatus,
                   clean, setup_text, package_list>>
    /\ UNCHANGED <<watchVars, walkVars>>

EnvNext == AddOrUpdate \/ SelectServer

SpecEnv == EnvInit /\ [][EnvNext]_vars

-----------------------------------------------------------------------------
(* Properties *)

\* number of requests issued from the call at source line l
IssuedAt(l) == Cardinality({i \in 1..Len(log) : log[i].line = l})

\* the answer to the request issued from line l ("" when none was issued)
AnswerAt(l) ==
    IF IssuedAt(l) = 0 THEN ""
    ELSE log[CHOOSE i \in 1..Len(log) : log[i].line = l].answer

\* archive submissions issued so far
Submissions == IssuedAt(461) + IssuedAt(481) + IssuedAt(504)

\* wait_for_server has returned a value
Waited == pc \in {"waited", "clear_cache", "returned", "exit"} /\ nStatus > 0

\* the polling loop has ended (break or exhausted budget) and its result is set
LoopResult == Waited /\ success \in {"True", "False"}

\* every status poll so far was answered 200 and the last answer was "completed"
CompletedAfterPending ==
    clean /\ r.kind = "response" /\ r.status_code = 200 /\ info.status = "completed"

\* C1 as stated: after k pending answers and one "completed" answer exactly
\* k+1 status requests were issued, for every k < 300, and wait_for_server
\* returns success.
C1_AsStated ==
    CompletedAfterPending =>
        /\ tries < MaxTries
        /\ nStatus = tries + 1
        /\ (pc # "after_loop" => success = "True")

\* C1 amended: after k pending answers and one "completed" answer exactly k+1
\* status requests were issued (none after the terminal answer), for every
\* k < 300; the result is success in workspace mode, and in package mode
\* exactly when the completed answer carries a true "ok" flag.
C1_PollCount ==
    CompletedAfterPending =>
        /\ tries < MaxTries
        /\ nStatus = tries + 1
        /\ (pc # "after_loop" =>
              (success = "True" <=> (playground # "" \/ info.ok)))
        /\ (pc # "after_loop" => success \in {"True", "False"})

C1_Witness ==
    /\ CompletedAfterPending
    /\ tries = MaxTries - 1
    /\ nStatus = MaxTries
    /\ playground = ""
    /\ success = "True"
    /\ pc = "exit"

\* every status poll so far was answered 200 with a pending status and the
\* loop is over
ExhaustedAllPending ==
    /\ clean
    /\ pc # "poll"
    /\ r.kind = "response" /\ r.status_code = 200
    /\ ~(info.status \in {"completed", "unknown"})

\* C2: when every status answer is pending, wait_for_server stops after
\* exactly 300 status requests, never issues more than 300 in either mode,
\* and returns False without raising.
C2_Exhaustion ==
    /\ nStatus <= MaxTries
    /\ ExhaustedAllPending =>
          /\ nStatus = MaxTries
          /\ (pc = "after_loop" \/ success = "False")

C2_Witness ==
    /\ ExhaustedAllPending
    /\ nStatus = MaxTries
    /\ playground = ""
    /\ pc = "waited"
    /\ success = "False"

\* C3: once polling has stopped on a 200 answer the result is success, in
\* workspace mode, iff the last status is "completed" and, in package mode,
\* iff the last answer carries a true "ok" flag.
C3_TerminalInterpretation ==
    LoopResult =>
        (success = "True" <=>
            IF playground # "" THEN info.status = "completed" ELSE info.ok)

C3_Witness ==
    /\ LoopResult
    /\ playground # ""
    /\ info.status = "unknown"
    /\ tries < MaxTries
    /\ success = "False"

\* the remote operation was submitted and ended in failure: a terminal
\* status that is not success, or an exhausted polling budget
OperationFailed == Submissions > 0 /\ LoopResult /\ success = "False"

\* C4 as stated: a failed remote operation makes package_installer return a
\* failure result and the install command end with a non-zero status, in
\* package mode and in workspace mode.
C4_FailureReported ==
    (pc = "exit" /\ OperationFailed) =>
        /\ ret # Returned("0")
        /\ exit_code # 0

\* the first submission was answered 400 "Invalid project." with a project
\* field set
InvalidProjectAnswered ==
    AnswerAt(461) = "400 Invalid project." /\ data.project # None

\* C5: after a 400 "Invalid project." answer with a project field set the
\* client issues one project-create request and, if that is answered 204,
\* resubmits exactly once; a 400 answer to the resubmission ends
\* package_installer with an error and no further create or submit request.
C5_SingleRetry ==
    InvalidProjectAnswered =>
        /\ IssuedAt(461) = 1
        /\ IssuedAt(473) = (IF pc = "retry_create" THEN 0 ELSE 1)
        /\ IssuedAt(481) = (IF AnswerAt(473) = "204" /\ pc # "resubmit" THEN 1 ELSE 0)
        /\ (IssuedAt(481) = 1 /\ AnswerAt(481) \in {"400 Invalid project.", "400 other"}) =>
              /\ pc \in {"returned", "exit"}
              /\ ret = Returned("playground_install POST returned")

C5_Witness ==
    /\ InvalidProjectAnswered
    /\ AnswerAt(473) = "204"
    /\ AnswerAt(481) = "400 Invalid project."
    /\ IssuedAt(481) = 1
    /\ pc = "exit"

\* a submission answer that is neither 200 nor 204
NonSuccess(answer) ==
    answer \in {"400 Invalid project.", "400 other", "500"}

ErrorReturned ==
    /\ pc \in {"returned", "exit"}
    /\ ret.kind = "return"
    /\ ret.value \in {"playground_install POST returned", "package POST returned"}

\* C6: the archive is submitted at most twice in workspace mode and at most
\* once in package mode; a second submission happens only after a 400
\* "Invalid project." answer with a project field set and a 204 answer to
\* the project-create request; every other non-success answer to a
\* submission ends the run with an error and no resubmission.
C6_OneRetryPath ==
    /\ Submissions <= (IF playground = "" THEN 1 ELSE 2)
    /\ IssuedAt(461) <= 1 /\ IssuedAt(481) <= 1 /\ IssuedAt(504) <= 1
    /\ IssuedAt(481) = 1 =>
          /\ InvalidProjectAnswered
          /\ IssuedAt(473) = 1
          /\ AnswerAt(473) = "204"
    /\ (NonSuccess(AnswerAt(461)) /\ ~InvalidProjectAnswered) =>
          IssuedAt(473) = 0 /\ IssuedAt(481) = 0 /\ ErrorReturned
    /\ NonSuccess(AnswerAt(481)) => ErrorReturned
    /\ NonSuccess(AnswerAt(504)) => Submissions = 1 /\ ErrorReturned

C6_Witness ==
    /\ playground = "default"
    /\ AnswerAt(461) = "400 Invalid project."
    /\ data.project = None
    /\ Submissions = 1
    /\ pc = "exit"

\* the restart decision has been taken
Decided == should_restart # "unset"

\* every archive submission issued so far carried restart="0"
SubmissionsCarryNoRestart ==
    \A i \in 1..Len(log) :
        log[i].line \in {461, 481, 504} => log[i].data.restart = "0"

\* C7: with restart override "no" the decision is should_restart = false,
\* whatever the code-file flag, declared name and dependencies are, and the
\* submission carries restart="0".
C7_OverrideNo ==
    restart = "no" =>
        /\ should_restart # "True"
        /\ (pc \notin {"walk", "decide"} => should_restart = "False")
        /\ SubmissionsCarryNoRestart

C7_Witness ==
    /\ restart = "no"
    /\ has_python_files
    /\ this_package_name # None
    /\ should_restart = "False"
    /\ Submissions = 1
    /\ SubmissionsCarryNoRestart

\* C8: with override "yes", or override "auto" and code files, the decision
\* is should_restart = true and the step-3 package list is never queried.
C8_OverrideYesOrCode ==
    (pc # "walk" /\ (restart = "yes" \/ (restart = "auto" /\ has_python_files))) =>
        /\ IssuedAt(393) = 0
        /\ should_restart # "False"
        /\ (pc # "decide" => should_restart = "True")

C8_Witness ==
    /\ restart = "auto"
    /\ has_python_files
    /\ this_package_name # None
    /\ should_restart = "True"
    /\ IssuedAt(393) = 0
    /\ pc = "exit"

\* the step-3 package list was queried and answered 200
LookupDone == IssuedAt(393) = 1 /\ AnswerAt(393) = "200"

\* C9 as stated: after a successful step-3 query the decision is
\* NOT(already_installed AND every dependency installed), the empty
\* dependency map included.
C9_AsStated ==
    LookupDone =>
        (should_restart = "True" <=>
            ~(already_installed /\ \A d \in DOMAIN dependencies : dependencies[d].installed))

\* C9 amended: after a successful step-3 query the decision is
\* NOT(already_installed AND every dependency installed) whenever at least
\* one dependency is declared, and false (no restart) when the dependency
\* map is empty, whether or not the declared package is installed.
C9_LookupDecision ==
    LookupDone =>
        /\ restart = "auto" /\ ~has_python_files
        /\ this_package_name # None \/ DOMAIN dependencies # {}
        /\ Decided
        /\ should_restart = "True" <=>
              /\ DOMAIN dependencies # {}
              /\ ~(already_installed /\ \A d \in DOMAIN dependencies : dependencies[d].installed)

C9_Witness ==
    /\ LookupDone
    /\ DOMAIN dependencies = {}
    /\ this_package_name # None
    /\ ~already_installed
    /\ should_restart = "False"
    /\ pc = "exit"

\* C10: with override "auto", no code files, no dependencies and no declared
\* name the decision is should_restart = true, taken without the step-3
\* package-list query.
C10_DefaultRestart ==
    (/\ pc # "walk"
     /\ restart = "auto"
     /\ ~has_python_files
     /\ DOMAIN dependencies = {}
     /\ this_package_name = None) =>
        /\ IssuedAt(393) = 0
        /\ should_restart # "False"
        /\ (pc # "decide" => should_restart = "True")

C10_Witness ==
    /\ restart = "auto"
    /\ ~has_python_files
    /\ DOMAIN dependencies = {}
    /\ this_package_name = None
    /\ should_restart = "True"
    /\ IssuedAt(393) = 0
    /\ pc = "exit"

-----------------------------------------------------------------------------
(* Properties of the manifest *)

\* the remote package matches the dependency named d by its name or by its
\* alternate name
MatchedBy(d, package_info) ==
    d = package_info.name \/ d = alt_name(package_info.name)

\* version-precedence ordering of an installed against a declared version
Satisfies(operator, installed, declared) ==
    \/ operator = None
    \/ operator = "==" /\ VersionCmp(parse(installed), parse(declared)) = 0
    \/ operator = "<"  /\ VersionCmp(parse(installed), parse(declared)) = -1
    \/ operator = "<=" /\ VersionCmp(parse(installed), parse(declared)) \in {-1, 0}
    \/ operator = ">"  /\ VersionCmp(parse(installed), parse(declared)) = 1
    \/ operator = ">=" /\ VersionCmp(parse(installed), parse(declared)) \in {0, 1}

\* C11: after the step-3 lookup a declared dependency is marked installed if
\* and only if some package of the remote list matches it by exact or
\* alternate name with a version that satisfies the declared operator
\* (always, when no operator is declared); without such a package it stays
\* not installed.
C11_DependencyInstalled ==
    pc = "looked" =>
        \A d \in DOMAIN dependencies :
            dependencies[d].installed <=>
                \E i \in 1..Len(package_list) :
                    /\ MatchedBy(d, package_list[i])
                    /\ Satisfies(dependencies[d].operator,
                                 package_list[i].version,
                                 dependencies[d].version)

C11_Witness ==
    /\ pc = "looked"
    /\ DOMAIN dependencies = {"foo", "docassemble-bar"}
    /\ ~dependencies["foo"].installed
    /\ dependencies["docassemble-bar"].installed
    /\ \E i \in 1..Len(package_list) : package_list[i].name = "foo"

\* what the bracketed list of the descriptor declares: its quoted entries
Declared(descriptor) == ScanDependenciesWith(descriptor, QuoteMarks)

\* C12 as stated: every quoted entry of the descriptor's dependency list is
\* an entry of the dependency map with its name, operator and version, so the
\* map is non-empty whenever a quoted dependency is listed; "foo>=1.2" is
\* marked installed when the remote list holds foo 1.5.0 and, the package
\* itself being installed, the decision is no restart.
C12_EndToEnd ==
    (pc \in {"lookup", "looked"} /\ setup_text # NoDescriptor) =>
        /\ \A n \in DOMAIN Declared(setup_text) :
              /\ n \in DOMAIN dependencies
              /\ dependencies[n].operator = Declared(setup_text)[n].operator
              /\ dependencies[n].version = Declared(setup_text)[n].version
        /\ (/\ pc = "looked"
            /\ "foo" \in DOMAIN Declared(setup_text)
            /\ \E i \in 1..Len(package_list) :
                  package_list[i] = [name |-> "foo", version |-> "1.5.0"]) =>
              /\ "foo" \in DOMAIN dependencies
              /\ dependencies["foo"].installed
              /\ (already_installed => should_restart = "False")

-----------------------------------------------------------------------------
(* Properties of the request sequence *)

\* the position in the log of the first request issued from line l
PositionOf(l) == CHOOSE i \in 1..Len(log) : log[i].line = l

\* package_installer has ended with an error value
EndedWithError == pc \in {"returned", "exit"} /\ ret.kind = "return" /\ ret.value # "0"

\* C13 as stated: after a non-200 answer to the step-3 package-list query
\* package_installer ends with an error result, the query is not repeated,
\* no submission, project, status or cache-clear request is issued, and the
\* install command ends as a failed install.
C13_QueryFailureSurfaced ==
    (IssuedAt(393) > 0 /\ AnswerAt(393) = "500") =>
        /\ EndedWithError
        /\ Len(log) = 1
        /\ nStatus = 0
        /\ (pc = "exit" => exit_code # 0)

\* C14 as stated: when should_restart is true the server-version query
\* precedes every submission, and when it fails (network error or non-200
\* status) package_installer raises and no submission is issued.
C14_VersionQueryFirst ==
    should_restart = "True" =>
        /\ \A i \in 1..Len(log) :
              log[i].line \in {461, 481, 504} =>
                  IssuedAt(427) = 1 /\ PositionOf(427) < i
        /\ (IssuedAt(427) = 1 /\ AnswerAt(427) # "200") =>
              /\ pc \in {"raised", "exit"}
              /\ ret = Raised("ClickException")
              /\ Submissions = 0

\* package_installer went past the cache-clear step of lines 515-521
PastCacheClear == pc \in {"returned", "raised", "exit"} /\ Waited

\* C15 as stated: in package mode the cache-clear request is issued if and
\* only if should_restart is false and the install succeeded, never after a
\* failed or timed-out install, and an answer other than 204 makes
\* package_installer return an error.
C15_CacheClear ==
    playground = "" =>
        /\ IssuedAt(516) = 1 => should_restart = "False" /\ success = "True"
        /\ (PastCacheClear /\ should_restart = "False" /\ success = "True") =>
              IssuedAt(516) = 1
        /\ (IssuedAt(516) = 1 /\ AnswerAt(516) = "500") =>
              ret = Returned("clear_cache returned")

\* the project names a project-list body reports
Projects(body) ==
    IF body = "[\"default\", \"proj\"]" THEN {"default", "proj"} ELSE {}

\* C16 as stated: in workspace mode the project list is fetched before the
\* archive is submitted, and the project-create request is issued if and only
\* if the fetched list does not report the target project.
C16_CreateIfMissing ==
    /\ IssuedAt(461) = 1 => IssuedAt(450) = 1 /\ PositionOf(450) < PositionOf(461)
    /\ (project_list.status_code = 200 /\ pc # "create_project") =>
          (IssuedAt(454) = 1 <=> playground \notin Projects(project_list.text))

-----------------------------------------------------------------------------
(* Properties of the watch loop *)

\* every event delivered so far came less than the buffer after the first
BurstWithinBuffer == occurred # {} /\ last_event - first_event < Buffer

\* both threads are at rest and the watch state is empty
Quiescent ==
    /\ hpc = "idle"
    /\ wpc = "check"
    /\ LAST_MODIFIED.time = 0
    /\ LAST_MODIFIED.files = {}

MidUpdate == hpc \in {"files", "restart"}

\* the drain loop is between its check and the end of its clear, not asleep
MidDrain ==
    /\ wpc \in {"classify", "read", "reading", "clear_time", "clear_files",
               "clear_restart"}
    /\ now >= wake

\* C18 as stated: the three-field update of on_any_event never interleaves
\* with the drain loop's check, classification, batch read and clear.
C18_MutualExclusion == ~(MidUpdate /\ MidDrain)

\* paths that on_any_event has stored in LAST_MODIFIED["files"] (line 579)
Recorded == occurred \ (IF hpc = "files" THEN {event} ELSE {})

\* the invocations whose batch holds the path
BatchesWith(path) == {i \in 1..Len(invocations) : path \in invocations[i].files}

\* the path waits in the watch state or in the batch being handed over
Pending(path) ==
    \/ path \in LAST_MODIFIED.files
    \/ /\ wpc \in {"clear_time", "clear_files", "clear_restart", "install"}
       /\ path \in printed

\* C19 as stated: every recorded event is in the batch of exactly one
\* invocation, never dropped by the clear and never in two batches, and
\* what is recorded after the clear keeps the time set, so that a later tick
\* synchronizes it.
C19_ExactlyOneBatch ==
    /\ \A path \in Recorded :
          /\ Cardinality(BatchesWith(path)) <= 1
          /\ BatchesWith(path) = {} => Pending(path)
    /\ (hpc = "idle" /\ wpc \in {"check", "installing"} /\ LAST_MODIFIED.files # {}) =>
          LAST_MODIFIED.time # 0

\* C20 as stated: every batch is synchronized with restart in mode "yes",
\* without restart in mode "no", and in mode "auto" with restart if and only
\* if one of its events was for a .py file.
C20_RestartPerBatch ==
    \A i \in 1..Len(invocations) :
        LET batch == invocations[i]
        IN  CASE restart_param = "yes" -> batch.restart = "yes"
              [] restart_param = "no" -> batch.restart = "no"
              [] restart_param = "auto" ->
                    (batch.restart = "yes" <=> \E path \in batch.files : endswith_py(path))

-----------------------------------------------------------------------------
(* Properties of the end of the watch session *)

\* the drain loop of lines 612-627 has been left
LoopEnded == wpc \notin LoopPositions

\* C21 as stated: an error raised by a synchronization is caught and the
\* loop keeps running; only an interrupt ends the watch session.
C21_OnlyInterruptEnds == LoopEnded => raised = "KeyboardInterrupt"

\* C22: on every way the loop ends the observer is stopped and then joined
\* before watch returns, and from the moment the observer is stopped no
\* package_installer invocation starts.
C22_StopJoinReturn ==
    [][/\ wpc' = "returned" => observer' = "joined"
       /\ observer' # observer =>
             <<observer, observer'>> \in {<<"started", "stopped">>, <<"stopped", "joined">>}
       /\ observer # "started" => invocations' = invocations /\ LoopEnded']_vars

C22_Witness ==
    /\ wpc = "returned"
    /\ raised = "RuntimeError"
    /\ Len(invocations) = 1

-----------------------------------------------------------------------------
(* Properties of the callback *)

\* the event passes the three tests of lines 573-577
Qualifies(ev) ==
    /\ ~ev.is_directory
    /\ ev.event_type \in {"created", "modified"}
    /\ ~matches_ignore_patterns(ev.src_path)

\* C23: the callback leaves the watch state unchanged for a directory event,
\* for an event of a type other than created and modified and for an ignored
\* path; for a qualifying event it sets the time and adds the path, and when
\* the path is no .py file it leaves the restart flag as it was.
C23_FrameEffect ==
    [][hpc' = "handled" =>
          IF Qualifies(event')
          THEN /\ LAST_MODIFIED'.time = now
               /\ LAST_MODIFIED'.files = LAST_MODIFIED.files \cup {event'.src_path}
               /\ ~endswith_py(event'.src_path) =>
                     LAST_MODIFIED'.restart = LAST_MODIFIED.restart
          ELSE LAST_MODIFIED' = LAST_MODIFIED]_vars

C23_Witness ==
    /\ hpc = "handled"
    /\ event = [src_path |-> "b.yml", is_directory |-> FALSE, event_type |-> "deleted"]
    /\ LAST_MODIFIED = [time |-> 1, files |-> {"a.yml"}, restart |-> FALSE]

-----------------------------------------------------------------------------
(* Properties of wait_for_server and of the requests *)

\* the install restarts the server and the server's version is older than 1.5.3
RestartingBefore153 ==
    /\ server_version_da # "norestart"
    /\ VersionCmp(parse(server_version_da), <<1, 5, 3>>) < 0

\* C24: once the polling loop has ended, the settle sleep is performed if and
\* only if the install restarts and the server version precedes 1.5.3,
\* whether the install succeeded or failed, and the result is the one the
\* last status answer gives.
C24_SettleSleep ==
    LoopResult =>
        /\ slept <=> RestartingBefore153
        /\ success = "True" <=> SuccessOf(playground # "", info)

C24_Witness ==
    /\ LoopResult
    /\ slept
    /\ success = "False"
    /\ tries = MaxTries

\* C27 as stated: every request issued (package list, server-version query,
\* project list, project create, submission, cache clear; the status polls
\* of line 307 always do) carries the fixed timeout.
C27_EveryRequestTimeout ==
    \A i \in 1..Len(log) : log[i].timeout = Timeout

\* a status poll was answered with a status other than 200 (line 310)
PollNot200 == success = "package_update_status returned"

\* C29 as stated: after a status poll answered with a non-200 status the
\* install is not reported as successful: "Installed." is not printed and
\* package_installer does not return 0, in package and in workspace mode.
C29_Not200IsFailure ==
    PollNot200 =>
        /\ ~installed_msg
        /\ pc \in {"returned", "exit"} => ret # Returned("0")

\* C30 as stated: a status poll that fails at network level is absorbed at
\* every poll index, the first included: wait_for_server does not end in an
\* exception for reading a response that was never assigned.
C30_PollFailureAbsorbed ==
    ~clean => ~(pc = "raised" /\ ret = Raised("UnboundLocalError"))

\* the server version is settled without the query (lines 441-443) or the
\* server-version query of line 427 was answered 200
VersionSettled == should_restart = "False" \/ AnswerAt(427) = "200"

\* C31 as stated: whenever an archive submission is reached after the
\* version was settled, by the "norestart" marker or by a 200 answer to the
\* server-version query whatever packages it lists, the server version
\* passed on to polling is assigned, and no run submits the archive and then
\* fails because it never was.
C31_VersionDefined ==
    (Submissions > 0 /\ VersionSettled) =>
        /\ server_version_da # "unset"
        /\ ~(nStatus = 0 /\ pc = "raised" /\ ret = Raised("UnboundLocalError"))

-----------------------------------------------------------------------------
(* Properties of the directory walk *)

\* the directory holds a package descriptor
HasDescriptor(dir) == "setup.py" \in fs[dir].files \/ "setup.cfg" \in fs[dir].files

\* the first directory of a traversal that holds a descriptor
FirstWithDescriptor(order) ==
    LET holders == {i \in 1..Len(order) : HasDescriptor(order[i])}
    IN  IF holders = {} THEN NoDirectory
        ELSE order[CHOOSE i \in holders : \A j \in holders : i <= j]

\* C25: the package root is set once, to the first directory in traversal
\* order that holds setup.py or setup.cfg; a descriptor met later neither
\* changes the root nor has the name or the dependencies parsed again.
C25_RootSetOnce ==
    [][/\ root_directory' = FirstWithDescriptor(visited')
       /\ root_directory # NoDirectory =>
             /\ root_directory' = root_directory
             /\ parsed' = parsed
             /\ this_package_name' = this_package_name
             /\ dependencies' = dependencies]_vars

C25_Witness ==
    /\ pc = "walked"
    /\ root_directory = Package
    /\ parsed = <<Package>>
    /\ this_package_name = "docassemble.bar"
    /\ "setup.cfg" \in fs[Modules].files
    /\ "setup.py" \in fs[Lib].files
    /\ Lib \in {visited[i] : i \in 1..Len(visited)}

\* the path is the prefix or lies under it
Under(path, prefix) ==
    Len(path) >= Len(prefix) /\ SubSeq(path, 1, Len(prefix)) = prefix

\* C26 as stated: whatever the ignore listing reports, as a path relative
\* to the package directory, is excluded: a directory is not walked into and
\* nothing under it is archived, a file is not archived.
C26_IgnoredExcluded ==
    \A path \in to_ignore :
        LET ignored == TopDirectory \o path
        IN  /\ \A archived \in zf : ~Under(archived, ignored)
            /\ \A i \in 1..Len(visited) : ~Under(visited[i], ignored)

-----------------------------------------------------------------------------
(* Properties of the server list *)

\* positions of the entries with the name
Named(items, name) == {i \in 1..Len(items) : items[i].name = name}

C32_SelectsGivenServer ==
    pc = "selected" =>
        selected_server = [apiurl |-> call.apiurl, apikey |-> call.apikey,
                           name |-> name_from_url(call.apiurl)]

====
